---- MODULE Spec2Model ----
(***************************************************************************)
(* Model of learning/plugins/modules/yc_instance.py: one reconciliation    *)
(* pass (main) talks to the provider only through the yc command line      *)
(* tool (_run).  The provider's instances are the only state that outlives *)
(* a pass.  Passes run one after the other under Spec.                     *)
(***************************************************************************)
EXTENDS Integers, Sequences, FiniteSets, TLC

\* ------------------------------------------------------------------ bounds
\* timeout_s of _poll_status; main passes 90, the model a budget of two
\* turns of the loop
timeout_s == 4
\* time.sleep(2) in _poll_status
SleepS == 2

\* passes a worker runs one after the other
MaxPasses == 2

\* dev_write_module: runs on the same path, and length of a text or file
MaxRuns == 2
MaxLen == 2

\* interfaces of a record given to _extract_public_ip
MaxNics == 2

\* processes that may run main on the control host; only the first runs
\* under Spec
Workers == {1, 2}
Sequential == {1}

\* Python's None / JSON null / a missing key read with dict.get
None == "None"

\* ---------------------------------------------------------- module params
CoreFractions == {5, 20, 50, 100}

\* values the caller may hand over for the integer options
CoresIn == {0, 2}
MemoryIn == {0, 2}
DiskIn == {0, 10}
FractionIn == {5, 33}

\* (preemptible, nat, ssh_key): every pair of values of two of the three
\* options occurs
FlagsIn ==
    { <<TRUE, TRUE, None>>, <<FALSE, TRUE, "user:ssh-rsa AAAA">>,
      <<TRUE, FALSE, "user:ssh-rsa AAAA">>, <<FALSE, FALSE, None>> }

ParamSpace ==
    { [name |-> "demo", folder_id |-> "b1g", zone |-> "ru-central1-a",
       subnet_id |-> "e9b", image_id |-> "fd8", platform_id |-> "standard-v2",
       cores |-> c, memory_gb |-> m, disk_gb |-> d,
       disk_type |-> "network-hdd", core_fraction |-> f,
       preemptible |-> fl[1], nat |-> fl[2], ssh_key |-> fl[3]] :
         c \in CoresIn, m \in MemoryIn, d \in DiskIn, f \in FractionIn,
         fl \in FlagsIn }

\* ----------------------------------------------------------- the provider
\* An instance of the provider.  stage 0: created, not yet in the list;
\* stage 1: listed, status still blank (blank: missing key or empty string);
\* stage 2: listed with status RUNNING.
IdNames == <<"fhm1", "fhm2", "fhm3", "fhm4", "fhm5", "fhm6">>
\* a JSON value as _extract_public_ip looks at it: its kind, for a list its
\* items, for an object the value of the one key the code asks it for (sub
\* is empty when the key is missing) and, for the NAT object, its "address"
JNull == [kind |-> "null", sub |-> <<>>, address |-> None]
JText == [kind |-> "str", sub |-> <<>>, address |-> None]
JList(items) == [kind |-> "list", sub |-> items, address |-> None]
JDict(sub, address) == [kind |-> "dict", sub |-> sub, address |-> address]

\* an interface with a NAT address, and one with an internal address only
NatNic(a) == JDict(<<JDict(<<JDict(<<>>, a)>>, None)>>, None)
PlainNic == JDict(<<JDict(<<>>, None)>>, None)

\* blank status and interfaces of the instances the run may create
NewShapes ==
    { <<None, JList(<<NatNic("1.2.3.4")>>)>>,
      <<"", JList(<<PlainNic, NatNic("5.6.7.8")>>)>> }

Inst(id, name, stage, blank, nics) ==
    [id |-> id, name |-> name, stage |-> stage, blank |-> blank, nics |-> nics]

\* folders the run may start from
InitClouds ==
    { <<>>,
      <<Inst("fhm1", "other", 2, None, JList(<<NatNic("9.9.9.9")>>))>>,
      <<Inst("fhm1", "demo", 1, None, JText)>>,
      <<Inst("fhm1", "demo", 1, "", JList(<<NatNic("1.2.3.4")>>))>>,
      <<Inst("fhm1", "other", 2, None, JList(<<NatNic("9.9.9.9")>>)),
        Inst("fhm2", "demo", 2, None, JList(<<PlainNic, NatNic("5.6.7.8")>>)),
        Inst("fhm3", "demo", 1, "", JList(<<>>))>> }

VARIABLES
    params,      \* module.params, the same for every pass of the run
    cloud,       \* the provider's instances of the folder, in creation order
    passNo,      \* passes worker w has started
    prev,        \* what worker w's previous pass did about create
    pc,          \* pc[w]: where the current pass of worker w is in main
    check_mode,  \* module.check_mode of pass p
    tool,        \* whether shutil.which("yc") finds the tool in pass p
    nList,       \* list commands pass p has run
    nCreate,     \* create commands pass p has run
    elapsed,     \* time.time() - start of _poll_status in pass p
    lookup0,     \* what the first list command of the pass returned
    lastObs,     \* what the latest list command of the pass returned
    createOut,   \* what the create command of pass p returned
    createArgv,  \* create_cmd of pass p as handed to _run
    inst,        \* main's local inst: <<>> is None, <<r>> a record
    result,      \* what pass p handed to exit_json / fail_json
    budget,      \* timeout_s as _poll_status is called with
    wContent,    \* dev_write_module: module.params['content']
    wFile,       \* the file at module.params['path']
    wParent,     \* whether the directory of the path exists
    wRuns,       \* runs of run_module so far
    wCheck,      \* module.check_mode of the latest run
    wWrites,     \* times the latest run opened the file for writing
    wResult,     \* what the latest run handed to exit_json / fail_json
    ipIn,        \* _extract_public_ip: inst["network_interfaces"]
    ipOut,       \* what the call returned
    ipDone       \* whether the call has been made

\* the state of the passes of yc_instance
passVars == <<params, cloud, passNo, prev, pc, check_mode, tool, nList, nCreate,
              elapsed, lookup0, lastObs, createOut, createArgv, inst, result,
              budget>>

\* the state of dev_write_module and its file
fileVars == <<wContent, wFile, wParent, wRuns, wCheck, wWrites, wResult>>

\* a call of _extract_public_ip on its own
ipVars == <<ipIn, ipOut, ipDone>>

\* what no step of yc_instance's main touches
aside == <<budget, fileVars, ipVars>>

vars == <<passVars, fileVars, ipVars>>

\* ------------------------------------------------------------ _run (yc CLI)
\* stdout of a command: its kind and, for well-formed JSON, the value
Stdout(kind, val) == [kind |-> kind, val |-> val]
Proc(rc, stdout, stderr) == [rc |-> rc, stdout |-> stdout, stderr |-> stderr]

\* the record the list command prints for an instance
Rec(i) ==
    [id |-> i.id, name |-> i.name,
     status |-> IF i.stage = 2 THEN "RUNNING" ELSE i.blank,
     network_interfaces |-> i.nics]

RECURSIVE Listing(_)
Listing(c) ==
    IF c = <<>> THEN <<>>
    ELSE IF Head(c).stage >= 1 THEN <<Rec(Head(c))>> \o Listing(Tail(c))
    ELSE Listing(Tail(c))

\* the provider moves on between two commands: an instance becomes listed,
\* a listed instance gets its status
Adv(i) == { [i EXCEPT !.stage = s] : s \in i.stage..2 }
RECURSIVE Progress(_)
Progress(c) ==
    IF c = <<>> THEN { <<>> }
    ELSE { <<h>> \o t : h \in Adv(Head(c)), t \in Progress(Tail(c)) }

\* text of a stream after str.strip()
Text(stdout) ==
    IF stdout.kind = "empty" THEN "" ELSE "<text>"
Strip(s) == IF s = " " THEN "" ELSE s

\* a non-zero exit: diagnostics on stderr, on stdout only, or nowhere
FailedRuns ==
    { Proc(1, Stdout("empty", <<>>), "ERROR: denied"),
      Proc(1, Stdout("garbage", <<>>), " "),
      Proc(1, Stdout("empty", <<>>), "") }

\* what `yc compute instance list --format json` may do: fail, print
\* something else than the list, or print the list of the folder as it has
\* become since the last time it was shown.  cloud: the folder afterwards.
RunList(c) ==
    { [cloud |-> c, proc |-> pr] : pr \in FailedRuns }
    \cup { [cloud |-> c, proc |-> Proc(0, Stdout(k, <<>>), "")] :
               k \in {"empty", "garbage", "scalars"} }
    \cup { [cloud |-> c2, proc |-> Proc(0, Stdout("json", Listing(c2)), "")] :
               c2 \in Progress(c) }

\* what `yc compute instance create` may answer
RunCreate ==
    FailedRuns
    \cup { Proc(0, Stdout(k, <<>>), "") : k \in {"empty", "garbage", "json"} }

\* _run: stdout, or RuntimeError with the first non-empty of stderr, stdout
\* and the quoted command line
RunMsg(pr, cmd) ==
    IF Strip(pr.stderr) # "" THEN Strip(pr.stderr)
    ELSE IF Strip(Text(pr.stdout)) # "" THEN Strip(Text(pr.stdout))
    ELSE "Command failed: " \o cmd

ParseMsg == "Failed to parse yc list output"
UnexpectedMsg == "Unexpected error"

\* a call's outcome: the value returned (objs: its elements are JSON
\* objects) or the exception raised
Ok(val) == [exc |-> "none", msg |-> "", val |-> val, objs |-> TRUE]
Raise(exc, msg) == [exc |-> exc, msg |-> msg, val |-> <<>>, objs |-> TRUE]

\* variant: output that is no JSON is read as an empty list
list_instances_lenient(pr) ==
    IF pr.rc # 0 THEN Raise("RuntimeError", RunMsg(pr, "yc compute instance list"))
    ELSE CASE pr.stdout.kind = "empty" -> Ok(<<>>)
           [] pr.stdout.kind = "garbage" -> Ok(<<>>)
           [] pr.stdout.kind = "scalars" -> [Ok(<<>>) EXCEPT !.objs = FALSE]
           [] OTHER -> Ok(pr.stdout.val)

\* variant: empty output is no JSON either
list_instances_strict(pr) ==
    IF pr.rc # 0 THEN Raise("RuntimeError", RunMsg(pr, "yc compute instance list"))
    ELSE CASE pr.stdout.kind = "empty" -> Raise("RuntimeError", ParseMsg)
           [] pr.stdout.kind = "garbage" -> Raise("RuntimeError", ParseMsg)
           [] pr.stdout.kind = "scalars" -> [Ok(<<>>) EXCEPT !.objs = FALSE]
           [] OTHER -> Ok(pr.stdout.val)

\* _list_instances: json.loads(out or "[]")
list_instances(pr) ==
    IF pr.rc # 0 THEN Raise("RuntimeError", RunMsg(pr, "yc compute instance list"))
    ELSE CASE pr.stdout.kind = "empty" -> Ok(<<>>)
           [] pr.stdout.kind = "garbage" -> Raise("RuntimeError", ParseMsg)
           [] pr.stdout.kind = "scalars" -> [Ok(<<>>) EXCEPT !.objs = FALSE]
           [] OTHER -> Ok(pr.stdout.val)

RECURSIVE FirstByName(_, _)
FirstByName(name, l) ==
    IF l = <<>> THEN <<>>
    ELSE IF Head(l).name = name THEN <<Head(l)>>
    ELSE FirstByName(name, Tail(l))

\* variant: the records are compared by id, so a name never matches
get_instance_by_name_by_id(name, pr) ==
    LET l == list_instances(pr) IN
    IF l.exc # "none" THEN l
    ELSE IF ~l.objs THEN Raise("Exception", UnexpectedMsg)
    ELSE Ok(SelectSeq(l.val, LAMBDA r : r.id = name))

\* _get_instance_by_name: the first record of the list with that name;
\* an element that is no object makes inst.get raise AttributeError
get_instance_by_name(name, pr) ==
    LET l == list_instances(pr) IN
    IF l.exc # "none" THEN l
    ELSE IF ~l.objs THEN Raise("Exception", UnexpectedMsg)
    ELSE Ok(FirstByName(name, l.val))

\* bool(v): None, "" and an empty list are false (an object without the key
\* asked for behaves the same whether it is empty or not)
Truthy(v) == v.kind \in {"str", "dict"} \/ (v.kind = "list" /\ v.sub # <<>>)

\* v.get(key) of an object, for the key the code asks it for
Get(v) == IF v.sub = <<>> THEN JNull ELSE v.sub[1]

\* x or {}
OrEmpty(v) == IF Truthy(v) THEN v ELSE JDict(<<>>, None)

\* variant: the NAT address of the first interface that has one
RECURSIVE extract_public_ip_any(_)
extract_public_ip_any(r) ==
    LET nics == r.network_interfaces IN
    IF ~Truthy(nics) \/ nics.kind # "list" THEN None
    ELSE LET nic == nics.sub[1]
             addr == IF nic.kind = "dict" THEN OrEmpty(Get(nic)) ELSE JNull
             nat == IF addr.kind = "dict" THEN OrEmpty(Get(addr)) ELSE JNull IN
         IF nat.kind = "dict" /\ nat.address # None THEN nat.address
         ELSE extract_public_ip_any([network_interfaces |-> JList(Tail(nics.sub))])

\* _extract_public_ip: every step that raises (indexing or .get on what is
\* no list or no object) ends in the except clause, which returns None
extract_public_ip(r) ==
    LET nics == r.network_interfaces IN
    IF ~Truthy(nics) THEN None
    ELSE IF nics.kind # "list" THEN None
    ELSE LET nic == nics.sub[1] IN
         IF nic.kind # "dict" THEN None
         ELSE LET addr == OrEmpty(Get(nic)) IN
              IF addr.kind # "dict" THEN None
              ELSE LET nat == OrEmpty(Get(addr)) IN
                   IF nat.kind # "dict" THEN None
                   ELSE nat.address

\* variant: an empty status counts as a status
HasStatus_Lenient(r) == r.status # None

\* truth value of inst.get("status")
HasStatus(r) == r.status # None /\ r.status # ""

\* ------------------------------------------------------------------- main
ToolMsg == "yc CLI not found in PATH"
CoresMsg == "cores must be >= 1"
MemoryMsg == "memory_gb must be >= 1"
DiskMsg == "disk_gb must be >= 1"
FractionMsg == "core_fraction must be one of 5, 20, 50, 100"
ValidationMsgs == {CoresMsg, MemoryMsg, DiskMsg, FractionMsg}

\* shutil.which("yc")
Which(present) == present

\* variant: the core fraction is not checked
Validate_NoFraction(p) ==
    IF p.cores < 1 THEN CoresMsg
    ELSE IF p.memory_gb < 1 THEN MemoryMsg
    ELSE IF p.disk_gb < 1 THEN DiskMsg
    ELSE "ok"

\* variant: memory is checked before cores
Validate_MemoryFirst(p) ==
    IF p.memory_gb < 1 THEN MemoryMsg
    ELSE IF p.cores < 1 THEN CoresMsg
    ELSE IF p.disk_gb < 1 THEN DiskMsg
    ELSE IF p.core_fraction \notin CoreFractions THEN FractionMsg
    ELSE "ok"

\* the four checks of main, first failure wins; "ok" when all pass
Validate(p) ==
    IF p.cores < 1 THEN CoresMsg
    ELSE IF p.memory_gb < 1 THEN MemoryMsg
    ELSE IF p.disk_gb < 1 THEN DiskMsg
    ELSE IF p.core_fraction \notin CoreFractions THEN FractionMsg
    ELSE "ok"

\* variant: the preemptible flag is appended whatever the option says
create_cmd_always_preemptible(p) ==
    <<"yc", "compute", "instance", "create",
      "--name", p.name,
      "--folder-id", p.folder_id,
      "--zone", p.zone,
      "--create-boot-disk",
          "size=" \o ToString(p.disk_gb) \o "GB,type=" \o p.disk_type
              \o ",image-id=" \o p.image_id,
      "--cores", ToString(p.cores),
      "--memory", ToString(p.memory_gb),
      "--core-fraction", ToString(p.core_fraction),
      "--platform-id", p.platform_id,
      "--format", "json">>
    \o <<"--preemptible">>
    \o <<"--network-interface",
         "subnet-id=" \o p.subnet_id
             \o (IF p.nat THEN ",nat-ip-version=ipv4" ELSE "")>>
    \o (IF p.ssh_key # None THEN <<"--ssh-key", p.ssh_key>> ELSE <<>>)

\* create_cmd as built by main
create_cmd(p) ==
    <<"yc", "compute", "instance", "create",
      "--name", p.name,
      "--folder-id", p.folder_id,
      "--zone", p.zone,
      "--create-boot-disk",
          "size=" \o ToString(p.disk_gb) \o "GB,type=" \o p.disk_type
              \o ",image-id=" \o p.image_id,
      "--cores", ToString(p.cores),
      "--memory", ToString(p.memory_gb),
      "--core-fraction", ToString(p.core_fraction),
      "--platform-id", p.platform_id,
      "--format", "json">>
    \o <<IF p.preemptible THEN "--preemptible" ELSE "--non-preemptible">>
    \o <<"--network-interface",
         "subnet-id=" \o p.subnet_id
             \o (IF p.nat THEN ",nat-ip-version=ipv4" ELSE "")>>
    \o (IF p.ssh_key # None THEN <<"--ssh-key", p.ssh_key>> ELSE <<>>)

\* module.fail_json(msg=...)
fail_json(msg) == [failed |-> TRUE, msg |-> msg]

\* variant: the found branch reports a change
ExitFound_Changed(r) ==
    [failed |-> FALSE, changed |-> TRUE, instance_id |-> r.id,
     name |-> r.name, status |-> r.status, public_ip |-> extract_public_ip(r)]

\* module.exit_json of the branch that found the instance
ExitFound(r) ==
    [failed |-> FALSE, changed |-> FALSE, instance_id |-> r.id,
     name |-> r.name, status |-> r.status, public_ip |-> extract_public_ip(r)]

\* module.exit_json(changed=True) of check mode
ExitCheck == [failed |-> FALSE, changed |-> TRUE]

\* variant: the fields are read from an empty create response
ExitCreated_FromResponse(o, p) ==
    [failed |-> FALSE, changed |-> TRUE, instance_id |-> None,
     name |-> p.name, status |-> None, public_ip |-> None]

\* module.exit_json after create and poll; o is the poller's inst
ExitCreated(o, p) ==
    [failed |-> FALSE, changed |-> TRUE,
     instance_id |-> IF o # <<>> THEN o[1].id ELSE None,
     name |-> p.name,
     status |-> IF o # <<>> THEN o[1].status ELSE None,
     public_ip |-> IF o # <<>> THEN extract_public_ip(o[1]) ELSE None]

Pending == [pending |-> TRUE, failed |-> FALSE]

\* what a list command showed, as seen from outside the module
Observe(name, pr) ==
    IF pr.rc # 0 THEN "error"
    ELSE IF pr.stdout.kind # "json" THEN pr.stdout.kind
    ELSE IF \E k \in 1..Len(pr.stdout.val) : pr.stdout.val[k].name = name
         THEN "has" ELSE "hasnot"

\* what is remembered of a pass once its process has exited
Summary(w) ==
    [nCreate |-> nCreate[w],
     created |-> createOut[w] \notin {"none", "error"}]

NoPass == [nCreate |-> 0, created |-> FALSE]

\* no process has run main yet
PassIdle ==
    /\ passNo = [w \in Workers |-> 0]
    /\ prev = [w \in Workers |-> NoPass]
    /\ pc = [w \in Workers |-> "idle"]
    /\ check_mode = [w \in Workers |-> FALSE]
    /\ tool = [w \in Workers |-> FALSE]
    /\ nList = [w \in Workers |-> 0]
    /\ nCreate = [w \in Workers |-> 0]
    /\ elapsed = [w \in Workers |-> 0]
    /\ lookup0 = [w \in Workers |-> "none"]
    /\ lastObs = [w \in Workers |-> "none"]
    /\ createOut = [w \in Workers |-> "none"]
    /\ createArgv = [w \in Workers |-> <<>>]
    /\ inst = [w \in Workers |-> <<>>]
    /\ result = [w \in Workers |-> Pending]

\* no call of _extract_public_ip on its own
IpIdle == ipIn = JNull /\ ipOut = None /\ ipDone = FALSE

\* ------------------------------------------------------- dev_write_module
\* characters of a text; a file may also hold a byte that is no UTF-8
Chars == {"a", "CR", "LF"}
Bytes == Chars \cup {"BAD"}

SeqsUpTo(S, n) == UNION { [1..k -> S] : k \in 0..n }

NoFile == [exists |-> FALSE, bytes |-> <<>>]
FileOf(b) == [exists |-> TRUE, bytes |-> b]

\* decoding with errors='ignore' drops what is no UTF-8
RECURSIVE DropBad(_)
DropBad(b) ==
    IF b = <<>> THEN <<>>
    ELSE IF Head(b) = "BAD" THEN DropBad(Tail(b))
    ELSE <<Head(b)>> \o DropBad(Tail(b))

\* reading in text mode turns \r\n and \r into \n
RECURSIVE Newlines(_)
Newlines(t) ==
    IF t = <<>> THEN <<>>
    ELSE IF Head(t) = "CR"
    THEN IF Len(t) >= 2 /\ t[2] = "LF"
         THEN <<"LF">> \o Newlines(Tail(Tail(t)))
         ELSE <<"LF">> \o Newlines(Tail(t))
    ELSE <<Head(t)>> \o Newlines(Tail(t))

\* f.read() of open(path, 'r', encoding='utf-8', errors='ignore')
ReadText(b) == Newlines(DropBad(b))

\* f.write(new_content) of open(path, 'w', encoding='utf-8')
WriteText(t) == t

\* current_content: <<>> is None, <<t>> the text read
CurrentContent(f) == IF f.exists THEN <<ReadText(f.bytes)>> ELSE <<>>

\* content_changed = (current_content != new_content)
ContentChanged(cur, new) == cur = <<>> \/ cur[1] # new

\* result of run_module
WriteResult(changed, new) ==
    [failed |-> FALSE, changed |-> changed, size |-> Len(new)]
WriteFailure(res) == [res EXCEPT !.failed = TRUE]
ReadFailure == [failed |-> TRUE, changed |-> FALSE, size |-> 0]
NoRun == [failed |-> FALSE, changed |-> FALSE, size |-> 0]

FileIdle ==
    /\ wContent = <<>>
    /\ wFile = NoFile
    /\ wParent = FALSE
    /\ wRuns = 0
    /\ wCheck = FALSE
    /\ wWrites = 0
    /\ wResult = NoRun

\* one run of the module: cm is check mode, readOk and writeOk say whether
\* the operating system lets the file be read and written
run_module ==
    /\ wRuns < MaxRuns
    /\ wRuns' = wRuns + 1
    /\ \E cm \in BOOLEAN, readOk \in BOOLEAN, writeOk \in BOOLEAN :
          LET cur == CurrentContent(wFile)
              changed == ContentChanged(cur, wContent)
              res == WriteResult(changed, wContent) IN
          /\ wCheck' = cm
          /\ IF wFile.exists /\ ~readOk
             THEN /\ wResult' = ReadFailure
                  /\ UNCHANGED <<wFile, wParent>>
                  /\ wWrites' = 0
             ELSE IF cm \/ ~changed
             THEN /\ wResult' = res
                  /\ UNCHANGED <<wFile, wParent>>
                  /\ wWrites' = 0
             ELSE IF writeOk
             THEN /\ wResult' = res
                  /\ wParent' = TRUE
                  /\ wFile' = FileOf(WriteText(wContent))
                  /\ wWrites' = 1
             ELSE /\ wResult' = WriteFailure(res)
                  /\ \/ UNCHANGED <<wFile, wParent>>
                     \/ wParent' = TRUE /\ UNCHANGED wFile
                     \/ wParent' = TRUE /\ wFile' = FileOf(<<>>)
                  /\ wWrites' = 0
    /\ UNCHANGED <<wContent, passVars, ipVars>>

Init ==
    /\ params \in ParamSpace
    /\ cloud \in InitClouds
    /\ budget = timeout_s
    /\ PassIdle
    /\ FileIdle
    /\ IpIdle

\* fail_json / exit_json: the pass is over
Finish(p, res) ==
    /\ pc' = [pc EXCEPT ![p] = "done"]
    /\ result' = [result EXCEPT ![p] = res]

\* variant: the parameters are validated before the tool is looked for
EntryFailure_ValidateFirst(t, prm) ==
    IF Validate(prm) # "ok" THEN Validate(prm)
    ELSE IF ~Which(t) THEN ToolMsg ELSE "ok"

\* main up to the try block: tool check, then validation
EntryFailure(t, prm) == IF ~Which(t) THEN ToolMsg ELSE Validate(prm)

\* a new process runs main on worker p: nothing of the previous pass is
\* left but the provider's state
MainEntry(p) ==
    /\ pc[p] \in {"idle", "done"}
    /\ passNo[p] < MaxPasses
    /\ passNo' = [passNo EXCEPT ![p] = @ + 1]
    /\ prev' = [prev EXCEPT ![p] = IF pc[p] = "done" THEN Summary(p) ELSE @]
    /\ nList' = [nList EXCEPT ![p] = 0]
    /\ nCreate' = [nCreate EXCEPT ![p] = 0]
    /\ elapsed' = [elapsed EXCEPT ![p] = 0]
    /\ lookup0' = [lookup0 EXCEPT ![p] = "none"]
    /\ lastObs' = [lastObs EXCEPT ![p] = "none"]
    /\ createOut' = [createOut EXCEPT ![p] = "none"]
    /\ createArgv' = [createArgv EXCEPT ![p] = <<>>]
    /\ inst' = [inst EXCEPT ![p] = <<>>]
    /\ \E t \in BOOLEAN, cm \in BOOLEAN :
          /\ tool' = [tool EXCEPT ![p] = t]
          /\ check_mode' = [check_mode EXCEPT ![p] = cm]
          /\ IF EntryFailure(t, params) # "ok"
             THEN Finish(p, fail_json(EntryFailure(t, params)))
             ELSE /\ pc' = [pc EXCEPT ![p] = "lookup"]
                  /\ result' = [result EXCEPT ![p] = Pending]
    /\ UNCHANGED <<params, cloud>>
    /\ UNCHANGED aside

\* variant: check mode is not looked at
AfterLookup_NoCheck(lk, cm) ==
    IF lk.exc # "none" THEN "fail"
    ELSE IF lk.val # <<>> THEN "found"
    ELSE "create"

\* where main goes after the first _get_instance_by_name
AfterLookup(lk, cm) ==
    IF lk.exc # "none" THEN "fail"
    ELSE IF lk.val # <<>> THEN "found"
    ELSE IF cm THEN "check"
    ELSE "create"

InitialLookup(p) ==
    /\ pc[p] = "lookup"
    /\ \E run \in RunList(cloud) :
          LET pr == run.proc
              lk == get_instance_by_name(params.name, pr)
              to == AfterLookup(lk, check_mode[p]) IN
          /\ cloud' = run.cloud
          /\ nList' = [nList EXCEPT ![p] = @ + 1]
          /\ lookup0' = [lookup0 EXCEPT ![p] = Observe(params.name, pr)]
          /\ lastObs' = [lastObs EXCEPT ![p] = Observe(params.name, pr)]
          /\ inst' = [inst EXCEPT ![p] = lk.val]
          /\ CASE to = "fail" -> Finish(p, fail_json(lk.msg))
               [] to = "found" -> Finish(p, ExitFound(lk.val[1]))
               [] to = "check" -> Finish(p, ExitCheck)
               [] OTHER -> /\ pc' = [pc EXCEPT ![p] = "create"]
                           /\ UNCHANGED result
    /\ UNCHANGED <<params, passNo, prev, check_mode, tool, nCreate, elapsed, createOut,
                   createArgv>>
    /\ UNCHANGED aside

\* the instance a successful create adds to the folder
Created(c, p) ==
    { Inst(IdNames[Len(c) + 1], p.name, 0, sh[1], sh[2]) : sh \in NewShapes }

\* variant: a create response that is no JSON is an error
Create_Strict(p) ==
    /\ pc[p] = "create"
    /\ nCreate' = [nCreate EXCEPT ![p] = @ + 1]
    /\ createArgv' = [createArgv EXCEPT ![p] = create_cmd(params)]
    /\ \E pr \in RunCreate :
          IF pr.rc # 0
          THEN /\ createOut' = [createOut EXCEPT ![p] = "error"]
               /\ Finish(p, fail_json(RunMsg(pr, "yc compute instance create")))
               /\ UNCHANGED <<cloud, elapsed>>
          ELSE /\ createOut' = [createOut EXCEPT ![p] = pr.stdout.kind]
               /\ \E i \in Created(cloud, params) : cloud' = Append(cloud, i)
               /\ elapsed' = [elapsed EXCEPT ![p] = 0]
               /\ IF pr.stdout.kind = "garbage"
                  THEN Finish(p, fail_json(UnexpectedMsg))
                  ELSE /\ pc' = [pc EXCEPT ![p] = "poll"]
                       /\ UNCHANGED result
    /\ UNCHANGED <<params, passNo, prev, check_mode, tool, nList, lookup0,
                   lastObs, inst>>
    /\ UNCHANGED aside

\* variant: create first makes sure the folder still has no such name
Create_Guarded(p) ==
    /\ pc[p] = "create"
    /\ \A k \in 1..Len(cloud) : cloud[k].name # params.name
    /\ nCreate' = [nCreate EXCEPT ![p] = @ + 1]
    /\ createArgv' = [createArgv EXCEPT ![p] = create_cmd(params)]
    /\ \E pr \in RunCreate :
          IF pr.rc # 0
          THEN /\ createOut' = [createOut EXCEPT ![p] = "error"]
               /\ Finish(p, fail_json(RunMsg(pr, "yc compute instance create")))
               /\ UNCHANGED <<cloud, elapsed>>
          ELSE /\ createOut' = [createOut EXCEPT ![p] = pr.stdout.kind]
               /\ \E i \in Created(cloud, params) : cloud' = Append(cloud, i)
               /\ elapsed' = [elapsed EXCEPT ![p] = 0]
               /\ pc' = [pc EXCEPT ![p] = "poll"]
               /\ UNCHANGED result
    /\ UNCHANGED <<params, passNo, prev, check_mode, tool, nList, lookup0,
                   lastObs, inst>>
    /\ UNCHANGED aside

\* variant: a create that fails is tried once more
Create_Retry(p) ==
    /\ pc[p] = "create"
    /\ nCreate' = [nCreate EXCEPT ![p] = @ + 1]
    /\ createArgv' = [createArgv EXCEPT ![p] = create_cmd(params)]
    /\ \E pr \in RunCreate :
          IF pr.rc # 0
          THEN /\ createOut' = [createOut EXCEPT ![p] = "error"]
               /\ IF nCreate[p] = 0
                  THEN UNCHANGED <<pc, result>>
                  ELSE Finish(p, fail_json(RunMsg(pr, "yc compute instance create")))
               /\ UNCHANGED <<cloud, elapsed>>
          ELSE /\ createOut' = [createOut EXCEPT ![p] = pr.stdout.kind]
               /\ \E i \in Created(cloud, params) : cloud' = Append(cloud, i)
               /\ elapsed' = [elapsed EXCEPT ![p] = 0]
               /\ pc' = [pc EXCEPT ![p] = "poll"]
               /\ UNCHANGED result
    /\ UNCHANGED <<params, passNo, prev, check_mode, tool, nList, lookup0,
                   lastObs, inst>>
    /\ UNCHANGED aside

Create(p) ==
    /\ pc[p] = "create"
    /\ nCreate' = [nCreate EXCEPT ![p] = @ + 1]
    /\ createArgv' = [createArgv EXCEPT ![p] = create_cmd(params)]
    /\ \E pr \in RunCreate :
          IF pr.rc # 0
          THEN /\ createOut' = [createOut EXCEPT ![p] = "error"]
               /\ Finish(p, fail_json(RunMsg(pr, "yc compute instance create")))
               /\ UNCHANGED <<cloud, elapsed>>
          ELSE /\ createOut' = [createOut EXCEPT ![p] = pr.stdout.kind]
               /\ \E i \in Created(cloud, params) : cloud' = Append(cloud, i)
               /\ elapsed' = [elapsed EXCEPT ![p] = 0]
               /\ pc' = [pc EXCEPT ![p] = "poll"]
               /\ UNCHANGED result
    /\ UNCHANGED <<params, passNo, prev, check_mode, tool, nList, lookup0,
                   lastObs, inst>>
    /\ UNCHANGED aside

\* variant: the sleep does not advance the clock
PollIter_NoClock(p) ==
    /\ pc[p] = "poll"
    /\ elapsed[p] < budget
    /\ \E run \in RunList(cloud) :
          LET pr == run.proc
              lk == get_instance_by_name(params.name, pr) IN
          /\ cloud' = run.cloud
          /\ nList' = [nList EXCEPT ![p] = @ + 1]
          /\ lastObs' = [lastObs EXCEPT ![p] = Observe(params.name, pr)]
          /\ inst' = [inst EXCEPT ![p] = lk.val]
          /\ IF lk.exc # "none"
             THEN Finish(p, fail_json(lk.msg)) /\ UNCHANGED elapsed
             ELSE IF lk.val # <<>> /\ HasStatus(lk.val[1])
             THEN Finish(p, ExitCreated(lk.val, params)) /\ UNCHANGED elapsed
             ELSE UNCHANGED <<pc, result, elapsed>>
    /\ UNCHANGED <<params, passNo, prev, check_mode, tool, nCreate, lookup0, createOut,
                   createArgv>>
    /\ UNCHANGED aside

\* _poll_status, one turn of the loop
PollIter(p) ==
    /\ pc[p] = "poll"
    /\ elapsed[p] < budget
    /\ \E run \in RunList(cloud) :
          LET pr == run.proc
              lk == get_instance_by_name(params.name, pr) IN
          /\ cloud' = run.cloud
          /\ nList' = [nList EXCEPT ![p] = @ + 1]
          /\ lastObs' = [lastObs EXCEPT ![p] = Observe(params.name, pr)]
          /\ inst' = [inst EXCEPT ![p] = lk.val]
          /\ IF lk.exc # "none"
             THEN Finish(p, fail_json(lk.msg)) /\ UNCHANGED elapsed
             ELSE IF lk.val # <<>> /\ HasStatus(lk.val[1])
             THEN Finish(p, ExitCreated(lk.val, params)) /\ UNCHANGED elapsed
             ELSE /\ elapsed' = [elapsed EXCEPT ![p] = @ + SleepS]
                  /\ UNCHANGED <<pc, result>>
    /\ UNCHANGED <<params, passNo, prev, check_mode, tool, nCreate, lookup0, createOut,
                   createArgv>>
    /\ UNCHANGED aside

\* variant: running out of time without a status is an error
PollFinal_Hard(p) ==
    /\ pc[p] = "poll"
    /\ elapsed[p] >= budget
    /\ \E run \in RunList(cloud) :
          LET pr == run.proc
              lk == get_instance_by_name(params.name, pr) IN
          /\ cloud' = run.cloud
          /\ nList' = [nList EXCEPT ![p] = @ + 1]
          /\ lastObs' = [lastObs EXCEPT ![p] = Observe(params.name, pr)]
          /\ inst' = [inst EXCEPT ![p] = lk.val]
          /\ IF lk.exc # "none"
             THEN Finish(p, fail_json(lk.msg))
             ELSE IF lk.val = <<>> \/ ~HasStatus(lk.val[1])
             THEN Finish(p, fail_json("Timed out waiting for status"))
             ELSE Finish(p, ExitCreated(lk.val, params))
    /\ UNCHANGED <<params, passNo, prev, check_mode, tool, nCreate, elapsed, lookup0,
                   createOut, createArgv>>
    /\ UNCHANGED aside

\* variant: out of time, the poller returns what its last turn saw
PollFinal_Stale(p) ==
    /\ pc[p] = "poll"
    /\ elapsed[p] >= budget
    /\ Finish(p, ExitCreated(inst[p], params))
    /\ UNCHANGED <<params, cloud, passNo, prev, check_mode, tool, nList, nCreate,
                   elapsed, lookup0, lastObs, createOut, createArgv, inst>>
    /\ UNCHANGED aside

\* _poll_status, the lookup after the loop has run out of time
PollFinal(p) ==
    /\ pc[p] = "poll"
    /\ elapsed[p] >= budget
    /\ \E run \in RunList(cloud) :
          LET pr == run.proc
              lk == get_instance_by_name(params.name, pr) IN
          /\ cloud' = run.cloud
          /\ nList' = [nList EXCEPT ![p] = @ + 1]
          /\ lastObs' = [lastObs EXCEPT ![p] = Observe(params.name, pr)]
          /\ inst' = [inst EXCEPT ![p] = lk.val]
          /\ IF lk.exc # "none"
             THEN Finish(p, fail_json(lk.msg))
             ELSE Finish(p, ExitCreated(lk.val, params))
    /\ UNCHANGED <<params, passNo, prev, check_mode, tool, nCreate, elapsed, lookup0,
                   createOut, createArgv>>
    /\ UNCHANGED aside

Next ==
    \E p \in Sequential :
        \/ MainEntry(p)
        \/ InitialLookup(p)
        \/ Create(p)
        \/ PollIter(p)
        \/ PollFinal(p)

Spec == Init /\ [][Next]_vars

\* the options' defaults of argument_spec
DefaultParams ==
    CHOOSE p \in ParamSpace :
        /\ p.cores = 2 /\ p.memory_gb = 2 /\ p.disk_gb = 10
        /\ p.core_fraction = 5 /\ p.preemptible /\ p.nat

\* timeout_s as main passes it to _poll_status
DefaultTimeoutS == 90

\* the module as it is shipped: default options, the poller's real budget
InitDefault ==
    /\ params = DefaultParams
    /\ cloud \in InitClouds
    /\ budget = DefaultTimeoutS
    /\ PassIdle
    /\ FileIdle
    /\ IpIdle

\* a step of a pass that has begun: commands return and the clock advances
PassStep ==
    \E p \in Sequential :
        InitialLookup(p) \/ Create(p) \/ PollIter(p) \/ PollFinal(p)

\* one invocation of the module
StartOnce(p) == passNo[p] = 0 /\ MainEntry(p)

NextDefault == (\E p \in Sequential : StartOnce(p)) \/ PassStep

SpecDefault == InitDefault /\ [][NextDefault]_vars /\ WF_vars(PassStep)

\* two processes run main at the same time on one folder, once each
InitRace ==
    /\ params = DefaultParams
    /\ cloud = <<>>
    /\ budget = SleepS
    /\ PassIdle
    /\ FileIdle
    /\ IpIdle

\* a step of the process of worker p
Step(p) ==
    StartOnce(p) \/ InitialLookup(p) \/ Create(p) \/ PollIter(p) \/ PollFinal(p)

NextRace == \E p \in Workers : Step(p)

\* the processes go on as long as one of them has a step to take
SpecRace == InitRace /\ [][NextRace]_vars /\ WF_vars(NextRace)

\* the shapes "network_interfaces" and what is nested in it may have:
\* one_to_one_nat, primary_v4_address, an interface, the list
Addresses == {"1.2.3.4", "5.6.7.8"}
Odd == {JNull, JText, JDict(<<>>, None)}
NatShapes == Odd \cup { JDict(<<>>, a) : a \in Addresses }
AddrShapes == Odd \cup { JDict(<<n>>, None) : n \in NatShapes }
NicShapes == Odd \cup { JDict(<<a>>, None) : a \in AddrShapes }
InterfaceShapes == Odd \cup { JList(l) : l \in SeqsUpTo(NicShapes, MaxNics) }

\* _extract_public_ip alone, on a record of any of these shapes
InitIp ==
    /\ params = DefaultParams
    /\ cloud = <<>>
    /\ budget = timeout_s
    /\ PassIdle
    /\ FileIdle
    /\ ipIn \in InterfaceShapes
    /\ ipOut = None
    /\ ipDone = FALSE

Extract ==
    /\ ~ipDone
    /\ ipDone' = TRUE
    /\ ipOut' = extract_public_ip(
                    [id |-> "fhm1", name |-> params.name, status |-> "RUNNING",
                     network_interfaces |-> ipIn])
    /\ UNCHANGED <<ipIn, passVars, fileVars>>

NextIp == Extract

SpecIp == InitIp /\ [][NextIp]_vars

\* dev_write_module alone: any text, any file
InitWrite ==
    /\ params = DefaultParams
    /\ cloud = <<>>
    /\ budget = timeout_s
    /\ PassIdle
    /\ wContent \in SeqsUpTo(Chars, MaxLen)
    /\ wFile \in {NoFile} \cup { FileOf(b) : b \in SeqsUpTo(Bytes, MaxLen) }
    /\ wParent \in BOOLEAN
    /\ wFile.exists => wParent
    /\ wRuns = 0
    /\ wCheck = FALSE
    /\ wWrites = 0
    /\ wResult = NoRun
    /\ IpIdle

NextWrite == run_module

SpecWrite == InitWrite /\ [][NextWrite]_vars

\* ------------------------------------------------------------ properties
\* the pass of worker w is over
Done(w) == pc[w] = "done"
Failed(w) == Done(w) /\ result[w].failed
Succeeded(w) == Done(w) /\ ~result[w].failed
\* the create command of the pass exited with 0
CreateOk(w) == createOut[w] \notin {"none", "error"}
\* the list command answered and its answer holds no record of the name
Absent(obs) == obs \in {"hasnot", "empty"}
\* the first record of the provider's current list that has the name
Listed(name) ==
    LET l == Listing(cloud)
        k == CHOOSE i \in 1..Len(l) :
                 l[i].name = name /\ \A j \in 1..(i - 1) : l[j].name # name
    IN l[k]
\* NAT address of the first interface of a listed record
FirstNat(r) ==
    LET n == r.network_interfaces IN
    IF /\ n.kind = "list" /\ Len(n.sub) > 0
       /\ n.sub[1].kind = "dict" /\ Len(n.sub[1].sub) = 1
       /\ n.sub[1].sub[1].kind = "dict" /\ Len(n.sub[1].sub[1].sub) = 1
       /\ n.sub[1].sub[1].sub[1].kind = "dict"
    THEN n.sub[1].sub[1].sub[1].address
    ELSE None
\* the instances of the folder, whatever state they are in
InstanceSet(c) == { <<c[k].id, c[k].name>> : k \in 1..Len(c) }
\* the step is one of worker w
Acts(w) ==
    passNo'[w] # passNo[w] \/ nList'[w] # nList[w] \/ nCreate'[w] # nCreate[w]

\* C1: when the previous pass created the instance and the list of the next
\* pass (tool present, check mode off, same input) shows an instance of the
\* name, that pass ends with changed=false and runs no create; create ran
\* once over the two passes.
C1_Idempotence ==
    \A w \in Workers :
        (Done(w) /\ passNo[w] >= 2 /\ prev[w].created /\ prev[w].nCreate = 1
            /\ tool[w] /\ ~check_mode[w] /\ lookup0[w] = "has")
        => /\ Succeeded(w)
           /\ result[w].changed = FALSE
           /\ nCreate[w] = 0
           /\ prev[w].nCreate + nCreate[w] = 1

C1_Witness ==
    \E w \in Workers :
        /\ Done(w) /\ passNo[w] = 2 /\ prev[w].created
        /\ tool[w] /\ ~check_mode[w] /\ lookup0[w] = "has"
        /\ Succeeded(w) /\ nCreate[w] = 0

\* C2: create runs only after the first list command of the pass succeeded,
\* was parsed and showed no instance of the name; a failed or malformed
\* first list ends the pass in failure without a create.
C2_CreateOnlyAfterAbsent ==
    \A w \in Workers :
        /\ (nCreate[w] > 0 \/ pc[w] \in {"create", "poll"})
               => (Absent(lookup0[w]) /\ nList[w] >= 1)
        /\ lookup0[w] \in {"error", "garbage"}
               => (Failed(w) /\ nCreate[w] = 0 /\ nList[w] = 1)

C2_Witness ==
    \E w \in Workers : nCreate[w] = 1 /\ lookup0[w] = "hasnot" /\ CreateOk(w)

\* C3: when the first lookup finds an instance of the name, whatever its
\* status, the pass succeeds with changed=false and the identifier, name,
\* status and NAT address of that record, after exactly one list command and
\* no create.
C3_FoundIsUnchanged ==
    \A w \in Workers :
        lookup0[w] = "has"
        => /\ Succeeded(w)
           /\ nList[w] = 1
           /\ nCreate[w] = 0
           /\ LET r == Listed(params.name) IN
              result[w] = [failed |-> FALSE, changed |-> FALSE,
                           instance_id |-> r.id, name |-> params.name,
                           status |-> r.status, public_ip |-> FirstNat(r)]

C3_Witness ==
    \E w \in Workers :
        /\ lookup0[w] = "has" /\ Succeeded(w)
        /\ result[w].status \in {None, ""}
        /\ result[w].changed = FALSE

\* C4: a check-mode pass never runs create and never polls: it runs at most
\* the one list command of the lookup, reports changed=true exactly when the
\* lookup found no instance of the name, and no step of it changes the
\* provider's set of instances.
C4_CheckState ==
    \A w \in Workers :
        (check_mode[w] /\ pc[w] # "idle")
        => /\ nCreate[w] = 0
           /\ nList[w] <= 1
           /\ pc[w] \in {"lookup", "done"}
           /\ Succeeded(w) => (nList[w] = 1 /\ result[w].changed = Absent(lookup0[w]))

C4_CheckStep ==
    \A w \in Workers :
        (Acts(w) /\ check_mode'[w]) => InstanceSet(cloud') = InstanceSet(cloud)

C4_CheckModeReadOnly == [](C4_CheckState) /\ [][C4_CheckStep]_vars

C4_Witness ==
    \E w \in Workers :
        /\ check_mode[w] /\ Succeeded(w) /\ lookup0[w] = "hasnot"
        /\ result[w].changed = TRUE
\* the poller's budget was used up before the pass ended
TimedOut(w) == Done(w) /\ CreateOk(w) /\ elapsed[w] >= budget
\* the latest list command answered with a well-formed list
Answered(obs) == obs \in {"has", "hasnot", "empty"}
\* the latest list command showed a record of the name with a status
StatusSeen(w) ==
    lastObs[w] = "has" /\ Listed(params.name).status \notin {None, ""}

\* C5 as claimed: when create succeeded and the poller ran out of time
\* without a status having appeared, the pass succeeds with changed=true and
\* neither status nor identifier.
C5_Original ==
    \A w \in Workers :
        (TimedOut(w) /\ Answered(lastObs[w]) /\ ~StatusSeen(w))
        => /\ Succeeded(w)
           /\ result[w].changed = TRUE
           /\ result[w].status \in {None, ""}
           /\ result[w].instance_id = None

\* C5: when create succeeded, the poller ran out of time and its final
\* lookup was answered, the pass succeeds with changed=true; status,
\* identifier and address are absent when that lookup found no record of the
\* name, and are those of the found record otherwise (so a record without
\* status still gives its identifier).
C5_SoftTimeout ==
    \A w \in Workers :
        (TimedOut(w) /\ Answered(lastObs[w]))
        => /\ Succeeded(w)
           /\ result[w].changed = TRUE
           /\ result[w].name = params.name
           /\ Absent(lastObs[w])
                 => /\ result[w].status = None
                    /\ result[w].instance_id = None
                    /\ result[w].public_ip = None
           /\ lastObs[w] = "has"
                 => /\ result[w].status = Listed(params.name).status
                    /\ result[w].instance_id = Listed(params.name).id

C5_Witness ==
    \E w \in Workers :
        /\ TimedOut(w) /\ lastObs[w] = "hasnot" /\ Succeeded(w)
        /\ result[w].changed = TRUE
        /\ result[w].status = None /\ result[w].instance_id = None

\* C6: when the first lookup found nothing, check mode is off, create
\* succeeded and the poller saw a record of the name with a non-empty status,
\* the pass succeeds with changed=true, the requested name, and the status,
\* identifier and NAT address of that record.
C6_CreatedReportsPolled ==
    \A w \in Workers :
        (Done(w) /\ CreateOk(w) /\ StatusSeen(w))
        => /\ Absent(lookup0[w]) /\ ~check_mode[w]
           /\ LET r == Listed(params.name) IN
              result[w] = [failed |-> FALSE, changed |-> TRUE,
                           instance_id |-> r.id, name |-> params.name,
                           status |-> r.status, public_ip |-> FirstNat(r)]

C6_Witness ==
    \E w \in Workers :
        /\ Done(w) /\ CreateOk(w) /\ StatusSeen(w) /\ lookup0[w] = "hasnot"
        /\ nList[w] = 3
        /\ result[w].changed = TRUE /\ result[w].status = "RUNNING"
        /\ result[w].public_ip = "1.2.3.4"

\* C7 as claimed: a failure after create has been invoked still reports the
\* changed flag, not only a message.
C7_FailureReportsChanged ==
    \A w \in Workers :
        (Failed(w) /\ nCreate[w] > 0) => "changed" \in DOMAIN result[w]

\* some constraint of the validator is violated
Invalid(p) ==
    p.cores < 1 \/ p.memory_gb < 1 \/ p.disk_gb < 1
        \/ p.core_fraction \notin {5, 20, 50, 100}
NoCommand(w) == nList[w] = 0 /\ nCreate[w] = 0

\* C8 as claimed: invalid parameters end the pass in a validation failure
\* and no external command runs, in check mode or not.
C8_Original ==
    \A w \in Workers :
        Invalid(params)
        => /\ NoCommand(w)
           /\ pc[w] # "idle"
                 => (Failed(w) /\ result[w].msg \in ValidationMsgs)

\* C8: invalid parameters end the pass in failure before any external
\* command runs, in check mode or not: a validation failure when the tool is
\* present, the tool-not-found failure otherwise.
C8_InvalidRunsNothing ==
    \A w \in Workers :
        Invalid(params)
        => /\ NoCommand(w)
           /\ pc[w] # "idle"
                 => /\ Failed(w)
                    /\ tool[w] => result[w].msg \in ValidationMsgs
                    /\ ~tool[w] => result[w].msg = ToolMsg

C8_Witness ==
    \E w \in Workers :
        /\ Failed(w) /\ tool[w] /\ check_mode[w] /\ NoCommand(w)
        /\ params.cores >= 1 /\ params.memory_gb >= 1 /\ params.disk_gb >= 1
        /\ params.core_fraction = 33
        /\ result[w].msg = FractionMsg

\* the failure names the first violated constraint in the order cores,
\* memory, disk size, core fraction
FirstViolationNamed(w) ==
    /\ params.cores < 1 => result[w].msg = CoresMsg
    /\ (params.cores >= 1 /\ params.memory_gb < 1) => result[w].msg = MemoryMsg
    /\ (params.cores >= 1 /\ params.memory_gb >= 1 /\ params.disk_gb < 1)
          => result[w].msg = DiskMsg
    /\ (params.cores >= 1 /\ params.memory_gb >= 1 /\ params.disk_gb >= 1)
          => result[w].msg = FractionMsg

\* C9 as claimed: with invalid parameters the failure always names the
\* first violated constraint.
C9_Original ==
    \A w \in Workers :
        (Invalid(params) /\ pc[w] # "idle")
        => (Failed(w) /\ FirstViolationNamed(w))

\* C9: when the tool is present, the failure of a pass with invalid
\* parameters names the first violated constraint in the order cores,
\* memory, disk size, core fraction, whatever the later fields are.
C9_FirstViolationWins ==
    \A w \in Workers :
        (Invalid(params) /\ pc[w] # "idle" /\ tool[w])
        => (Failed(w) /\ FirstViolationNamed(w))

C9_Witness ==
    \E w \in Workers :
        /\ Failed(w) /\ tool[w]
        /\ params.cores < 1 /\ params.memory_gb < 1 /\ params.disk_gb < 1
        /\ params.core_fraction = 33
        /\ result[w].msg = CoresMsg

\* C10: when the tool is not found the pass fails at once with the
\* tool-not-found message and runs no external command, whatever the
\* parameters are and whether or not check mode is on.
C10_ToolNotFound ==
    \A w \in Workers :
        (pc[w] # "idle" /\ ~tool[w])
        => /\ Failed(w)
           /\ result[w].msg = ToolMsg
           /\ NoCommand(w)

C10_Witness ==
    \E w \in Workers :
        /\ Failed(w) /\ ~tool[w] /\ check_mode[w] /\ Invalid(params)
        /\ result[w].msg = ToolMsg /\ NoCommand(w)
\* how often the token occurs in a command line
Count(argv, tok) == Cardinality({ k \in 1..Len(argv) : argv[k] = tok })

\* C11: every create command a pass runs holds exactly one of the flags
\* --preemptible and --non-preemptible: the first when preemptible is true,
\* the second when it is false.
C11_PreemptibleFlag ==
    \A w \in Workers :
        /\ nCreate[w] > 0 => createArgv[w] # <<>>
        /\ createArgv[w] # <<>>
              => /\ Count(createArgv[w], "--preemptible")
                       = (IF params.preemptible THEN 1 ELSE 0)
                 /\ Count(createArgv[w], "--non-preemptible")
                       = (IF params.preemptible THEN 0 ELSE 1)

C11_Witness ==
    \E w \in Workers :
        /\ nCreate[w] = 1 /\ ~params.preemptible
        /\ Count(createArgv[w], "--non-preemptible") = 1
        /\ Count(createArgv[w], "--preemptible") = 0

\* the file holds exactly the text
Holds(f, t) == f.exists /\ f.bytes = WriteText(t)

\* a run of dev_write_module that ended in exit_json
WriteRun == wRuns' = wRuns + 1 /\ ~wResult'.failed

\* C12: dev_write_module is an idempotent write. A run that succeeds reports
\* changed=true exactly when the file is missing or does not hold the desired
\* content; outside check mode it leaves the file holding exactly that
\* content, and the run after such a run reports changed=false and writes
\* nothing; in check mode it reports the same and leaves the file and its
\* directory alone.
C12_IdempotentWrite ==
    [][ WriteRun =>
          /\ wResult'.changed = ~Holds(wFile, wContent)
          /\ ~wCheck' => Holds(wFile', wContent)
          /\ (wRuns > 0 /\ ~wCheck /\ ~wResult.failed)
                => ~wResult'.changed /\ wWrites' = 0 /\ wFile' = wFile
          /\ wCheck' => wFile' = wFile /\ wParent' = wParent ]_vars

\* a turn of the poller's loop by worker w
LoopTurn(w) == pc[w] = "poll" /\ elapsed[w] < budget /\ nList'[w] = nList[w] + 1
\* the lookup of this step returned a record, and it has a status
SeenNow(w) ==
    inst'[w] # <<>> /\ inst'[w][1].status \notin {None, ""}

C13_PollState ==
    \A w \in Workers :
        (Succeeded(w) /\ CreateOk(w) /\ elapsed[w] < budget)
        => /\ lastObs[w] = "has"
           /\ LET r == Listed(params.name) IN
              /\ r.status \notin {None, ""}
              /\ result[w].name = params.name
              /\ result[w].status = r.status
              /\ result[w].instance_id = r.id

C13_PollStep ==
    \A w \in Workers :
        /\ LoopTurn(w)
              => LET seen == SeenNow(w) IN
                 IF seen
                 THEN /\ pc'[w] = "done"
                      /\ elapsed'[w] = elapsed[w]
                      /\ ~result'[w].failed
                      /\ result'[w].status = inst'[w][1].status
                      /\ result'[w].instance_id = inst'[w][1].id
                      /\ inst'[w][1].name = params.name
                 ELSE Answered(lastObs'[w])
                         => /\ pc'[w] = "poll"
                            /\ elapsed'[w] = elapsed[w] + SleepS
                            /\ result'[w] = result[w]
        /\ (pc[w] = "done" /\ passNo'[w] = passNo[w]) => nList'[w] = nList[w]

\* C13: a turn of the poller's loop looks the name up once; when the lookup
\* finds a record with a non-empty status the pass ends in that step with that
\* record, without sleeping, and no lookup follows; when it finds nothing or
\* an empty status the poller sleeps the fixed interval and goes on polling.
\* A pass that succeeded after create with time to spare reports a record of
\* the requested name with a non-empty status.
C13_DoneRule == [](C13_PollState) /\ [][C13_PollStep]_vars

C13_Witness ==
    \E w \in Workers :
        /\ Succeeded(w) /\ CreateOk(w) /\ StatusSeen(w)
        /\ elapsed[w] = SleepS /\ elapsed[w] < budget
        /\ result[w].status = "RUNNING"

\* the messages a lookup that fails can end the pass with
ListMsgs ==
    { RunMsg(pr, "yc compute instance list") : pr \in FailedRuns }
        \cup {ParseMsg, UnexpectedMsg}

\* the poller, out of time, acts
FinalTurn(w) == pc[w] = "poll" /\ elapsed[w] >= budget /\ Acts(w)

C14_TimeoutState ==
    \A w \in Workers :
        TimedOut(w)
        => /\ nList[w] = (elapsed[w] \div SleepS) + 2
           /\ Answered(lastObs[w]) => Succeeded(w)
           /\ Failed(w) => result[w].msg \in ListMsgs

C14_TimeoutStep ==
    \A w \in Workers :
        FinalTurn(w)
        => /\ nList'[w] = nList[w] + 1
           /\ pc'[w] = "done"
           /\ elapsed'[w] = elapsed[w]
           /\ Answered(lastObs'[w])
                 => /\ ~result'[w].failed
                    /\ Absent(lastObs'[w]) => result'[w].status = None
                    /\ lastObs'[w] = "has"
                          => /\ result'[w].status = (Listed(params.name).status)'
                             /\ result'[w].instance_id = (Listed(params.name).id)'

\* C14: once the elapsed time has reached the timeout the poller's next step
\* is one lookup that ends the pass: whatever an answered lookup finds (a
\* record with a status, a record without, or nothing) is reported as a
\* success, no sleep follows, and the only failure possible at that point
\* is the one of the list command itself, never one for the timeout.
C14_TimeoutExit == [](C14_TimeoutState) /\ [][C14_TimeoutStep]_vars

C14_Witness ==
    \E w \in Workers :
        /\ TimedOut(w) /\ Succeeded(w) /\ lastObs[w] = "has"
        /\ Listed(params.name).status = ""
        /\ nList[w] = (budget \div SleepS) + 2

\* a pass of worker w is under way
Running(w) == pc[w] \in {"lookup", "create", "poll"}

C15_Outcome ==
    \A w \in Workers :
        /\ Done(w) <=> result[w] # Pending
        /\ Done(w) => result[w].failed \in BOOLEAN
        /\ pc[w] = "poll" => nList[w] - 1 <= 45
        /\ nList[w] <= 1 + (DefaultTimeoutS \div SleepS) + 1

C15_OutcomeStep ==
    \A w \in Workers :
        (pc[w] = "done" /\ passNo'[w] = passNo[w])
        => pc'[w] = "done" /\ result'[w] = result[w]

\* C15: with the defaults (timeout 90, interval 2), commands that return and
\* a clock that advances with each sleep, every pass that has begun ends;
\* it ends with one result, a success or a failure, that no later step of
\* the pass changes; and the poller's loop makes at most 45 lookups before
\* the final one, whether or not a status ever shows.
C15_Termination ==
    /\ \A w \in Workers : Running(w) ~> Done(w)
    /\ [](C15_Outcome)
    /\ [][C15_OutcomeStep]_vars

C15_Witness ==
    \E w \in Workers :
        /\ TimedOut(w) /\ Succeeded(w) /\ ~StatusSeen(w)
        /\ elapsed[w] = 90
        /\ nList[w] = 47

\* what the tool may say when create fails: its stderr, else its stdout,
\* else the command line
CreateDiagnostics ==
    {"ERROR: denied", "<text>", "Command failed: yc compute instance create"}

C16_CreateState ==
    \A w \in Workers :
        /\ nCreate[w] <= 1
        /\ createOut[w] = "error"
              => /\ Failed(w)
                 /\ nCreate[w] = 1
                 /\ nList[w] = 1
                 /\ elapsed[w] = 0
                 /\ result[w].msg \in CreateDiagnostics

C16_CreateStep ==
    \A w \in Workers :
        /\ nCreate'[w] > nCreate[w] => pc[w] = "create" /\ nCreate[w] = 0
        /\ (createOut[w] = "error" /\ passNo'[w] = passNo[w])
              => UNCHANGED <<nList[w], nCreate[w], result[w], cloud>>

\* C16: a pass runs the create command at most once; when the command
\* fails, the pass is over at once as a failure whose message is the tool's
\* diagnostic, and nothing further is run: no second create, no lookup of
\* the poller, no success result.
C16_CreateOnce == [](C16_CreateState) /\ [][C16_CreateStep]_vars

C16_Witness ==
    \E w \in Workers :
        /\ createOut[w] = "error" /\ Failed(w) /\ nCreate[w] = 1
        /\ result[w].msg = "ERROR: denied"

\* instances of the name the provider holds, listed yet or not
Named(c, name) == { k \in 1..Len(c) : c[k].name = name }

\* both passes have looked, found the name absent and decided to create, and
\* neither has run create yet
BothDecided ==
    \A w \in Workers :
        pc[w] = "create" /\ Absent(lookup0[w]) /\ nCreate[w] = 0

BothCreated == \A w \in Workers : nCreate[w] = 1

C17_NoGuard ==
    \A w \in Workers :
        /\ pc[w] = "create" => ENABLED Create(w)
        /\ (\A v \in Workers : CreateOk(v))
              => Cardinality(Named(cloud, params.name)) >= Cardinality(Workers)

\* C17: two passes running at the same time for one name can both see the
\* name absent before either creates; nothing between the lookup and the
\* create then holds either back (create stays enabled whatever the other
\* pass has done), so both run create, and two creates that succeed leave
\* two instances of the one name.
C17_SameNameRace ==
    /\ [](C17_NoGuard)
    /\ BothDecided ~> BothCreated

C17_Witness ==
    /\ BothDecided
    /\ Named(cloud, params.name) = {}
    /\ \A w \in Workers : nList[w] = 1 /\ ~check_mode[w]

\* what the create command printed when it succeeded
CreateOutputs == {"empty", "garbage", "json"}

C18_AdvisoryState ==
    \A w \in Workers :
        (Done(w) /\ CreateOk(w))
        => /\ createOut[w] \in CreateOutputs
           /\ nList[w] >= 2
           /\ Failed(w) => ~Answered(lastObs[w]) /\ result[w].msg \in ListMsgs
           /\ Answered(lastObs[w])
                 => /\ Succeeded(w)
                    /\ result[w] =
                          IF lastObs[w] = "has"
                          THEN [failed |-> FALSE, changed |-> TRUE,
                                instance_id |-> Listed(params.name).id,
                                name |-> params.name,
                                status |-> Listed(params.name).status,
                                public_ip |-> FirstNat(Listed(params.name))]
                          ELSE [failed |-> FALSE, changed |-> TRUE,
                                instance_id |-> None, name |-> params.name,
                                status |-> None, public_ip |-> None]

C18_AdvisoryStep ==
    \A w \in Workers :
        (nCreate'[w] > nCreate[w] /\ createOut'[w] \in CreateOutputs)
        => pc'[w] = "poll" /\ result'[w] = Pending /\ nList'[w] = nList[w]

\* C18: whatever a create command that succeeded printed (nothing, text
\* that is no JSON, or JSON), the pass goes on to poll without a result yet;
\* it can then fail only through a list command, and when its last lookup is
\* answered its identifier, status and address are those of the record that
\* lookup found, or absent when it found none.
C18_CreateOutputAdvisory == [](C18_AdvisoryState) /\ [][C18_AdvisoryStep]_vars

C18_Witness ==
    \E w \in Workers :
        /\ Succeeded(w) /\ createOut[w] = "garbage" /\ lastObs[w] = "has"
        /\ result[w].status = "RUNNING" /\ result[w].instance_id # None

\* C19: _extract_public_ip always returns: the NAT address of the first
\* interface when the record has a list of interfaces whose first element has
\* an address object with a NAT object, and None in every other case (no
\* interfaces, no address or NAT on the first interface whatever later
\* interfaces have, or a shape that is not the expected one).
C19_ExtractTotal ==
    ipDone
    => /\ ipOut \in Addresses \cup {None}
       /\ ipOut = FirstNat([network_interfaces |-> ipIn])
       /\ (ipIn.kind # "list" \/ ipIn.sub = <<>>) => ipOut = None
       /\ (ipIn.kind = "list" /\ ipIn.sub # <<>> /\ ipIn.sub[1] \in {PlainNic} \cup Odd)
             => ipOut = None

C19_Witness ==
    /\ ipDone
    /\ ipIn = JList(<<PlainNic, NatNic("5.6.7.8")>>)
    /\ ipOut = None

C20_EmptyState ==
    \A w \in Workers :
        lookup0[w] = "empty"
        => /\ nList[w] >= 1
           /\ check_mode[w]
                 => /\ Succeeded(w)
                    /\ result[w] = [failed |-> FALSE, changed |-> TRUE]
                    /\ nCreate[w] = 0
           /\ ~check_mode[w]
                 => /\ pc[w] \in {"create", "poll", "done"}
                    /\ pc[w] = "create" => nCreate[w] = 0 /\ ENABLED Create(w)
                    /\ pc[w] # "create" => nCreate[w] = 1

C20_EmptyStep ==
    \A w \in Workers :
        /\ (pc[w] = "lookup" /\ lookup0'[w] = "empty")
              => ~result'[w].failed
        /\ (LoopTurn(w) /\ lastObs'[w] = "empty")
              => /\ pc'[w] = "poll"
                 /\ elapsed'[w] = elapsed[w] + SleepS
                 /\ result'[w] = Pending
        /\ (FinalTurn(w) /\ lastObs'[w] = "empty")
              => ~result'[w].failed /\ result'[w].status = None

\* C20: a list command that succeeds and prints nothing is read as an empty
\* list, not as a parse error: as the first lookup it answers absent, so a
\* check-mode pass reports changed=true and any other pass goes on to run
\* create; in the poller's loop it counts as not found yet (sleep, then poll
\* again), and as the final lookup it gives a success without a status.
C20_EmptyListOutput == [](C20_EmptyState) /\ [][C20_EmptyStep]_vars

C20_Witness ==
    \E w \in Workers :
        /\ lookup0[w] = "empty" /\ ~check_mode[w] /\ nCreate[w] = 1
        /\ pc[w] = "poll" /\ lastObs[w] = "empty" /\ elapsed[w] = SleepS

====
